---- MODULE Spec2Model ----
(***************************************************************************)
(* Model of the symbolic limit engine (src/limits.py) together with the    *)
(* part of the expression kernel it relies on.                             *)
(*                                                                         *)
(* Expressions are tagged tuples:                                          *)
(*   <<"num", p, q>>    rational p/q, q > 0, gcd(|p|, q) = 1               *)
(*   <<"sym", name>>    symbol, equal iff same name                        *)
(*   <<"infty">>        the sentinel s.infty                               *)
(*   <<"add", args>>    sum of the sequence args                           *)
(*   <<"mul", args>>    product of the sequence args                       *)
(*   <<"pow", a, b>>    a ** b                                             *)
(*   <<"exp", arg>>     exp(arg)                                           *)
(*   <<"ln", arg>>      ln(arg)                                            *)
(* A raised exception is the value <<"raise", message>>; a function that   *)
(* may raise returns either that or <<"ok", value>>.                       *)
(***************************************************************************)
EXTENDS Integers, Sequences, FiniteSets, TLC

\* ------------------------------------------------------------------------
\* Calls.  The functions of the kernel and of src/limits.py call each other;
\* a call f(a, b) is written Call(<<"f", a, b>>) and dispatched by Call,
\* defined after the last of them.
\* ------------------------------------------------------------------------
RECURSIVE Call(_)

\* ------------------------------------------------------------------------
\* Results and exceptions
\* ------------------------------------------------------------------------
Ok(v) == <<"ok", v>>
Raise(m) == <<"raise", m>>
IsErr(r) == r[1] = "raise"
Val(r) == r[2]

\* ------------------------------------------------------------------------
\* Constructors
\* ------------------------------------------------------------------------
Abs(n) == IF n < 0 THEN -n ELSE n

RECURSIVE GCD(_, _)
GCD(a, b) == IF b = 0 THEN a ELSE GCD(b, a % b)

rational(p, q) ==
  LET g == GCD(Abs(p), Abs(q))
      s == IF q < 0 THEN -1 ELSE 1
  IN  <<"num", (s * p) \div g, (s * q) \div g>>

Num(n) == <<"num", n, 1>>
symbol(n) == <<"sym", n>>
infty == <<"infty">>
add(args) == <<"add", args>>
mul(args) == <<"mul", args>>
pow(a, b) == <<"pow", a, b>>
exp(a) == <<"exp", a>>
ln(a) == <<"ln", a>>

\* a function over 1..n as a tuple of its values
list(f) == f \o <<>>

Tag(e) == e[1]
IsNum(e) == Tag(e) = "num"
IsInt(e) == IsNum(e) /\ e[3] = 1

\* ------------------------------------------------------------------------
\* Rational arithmetic
\* ------------------------------------------------------------------------
NumAdd(a, b) == rational(a[2] * b[3] + b[2] * a[3], a[3] * b[3])
NumMul(a, b) == rational(a[2] * b[2], a[3] * b[3])
NumLess(a, b) == a[2] * b[3] < b[2] * a[3]
NumSign(a) == IF a[2] > 0 THEN 1 ELSE IF a[2] < 0 THEN -1 ELSE 0
NumInv(a) == rational(a[3], a[2])

RECURSIVE NumPowNat(_, _)
NumPowNat(a, n) == IF n = 0 THEN Num(1) ELSE NumMul(a, NumPowNat(a, n - 1))

NumPowInt(a, n) == IF n >= 0 THEN NumPowNat(a, n) ELSE NumPowNat(NumInv(a), -n)

\* ------------------------------------------------------------------------
\* Canonical ordering of the children of Add and Mul
\* ------------------------------------------------------------------------
TagRank(t) ==
  CASE t = "num" -> 0
    [] t = "infty" -> 1
    [] t = "sym" -> 2
    [] t = "pow" -> 3
    [] t = "exp" -> 4
    [] t = "ln" -> 5
    [] t = "mul" -> 6
    [] t = "add" -> 7
    [] OTHER -> 8

SymRank(n) ==
  CASE n = "w" -> 0
    [] n = "x" -> 1
    [] n = "y" -> 2
    [] n = "z" -> 3
    [] OTHER -> 4

RECURSIVE cmp(_, _), cmpSeq(_, _, _)
cmp(a, b) ==
  IF a = b THEN 0
  ELSE IF TagRank(Tag(a)) # TagRank(Tag(b))
       THEN (IF TagRank(Tag(a)) < TagRank(Tag(b)) THEN -1 ELSE 1)
  ELSE CASE Tag(a) = "num" -> (IF NumLess(a, b) THEN -1 ELSE 1)
         [] Tag(a) = "sym" -> (IF SymRank(a[2]) < SymRank(b[2]) THEN -1 ELSE 1)
         [] Tag(a) = "pow" -> (LET c == cmp(a[2], b[2])
                               IN  IF c # 0 THEN c ELSE cmp(a[3], b[3]))
         [] Tag(a) \in {"exp", "ln"} -> cmp(a[2], b[2])
         [] Tag(a) \in {"add", "mul"} ->
              (IF Len(a[2]) # Len(b[2])
               THEN (IF Len(a[2]) < Len(b[2]) THEN -1 ELSE 1)
               ELSE cmpSeq(a[2], b[2], 1))
         [] OTHER -> 0
cmpSeq(s, t, i) ==
  IF i > Len(s) THEN 0
  ELSE LET c == cmp(s[i], t[i])
       IN  IF c # 0 THEN c ELSE cmpSeq(s, t, i + 1)

RECURSIVE Insert(_, _)
Insert(e, s) ==
  IF s = <<>> THEN <<e>>
  ELSE IF cmp(e, Head(s)) <= 0 THEN <<e>> \o s
  ELSE <<Head(s)>> \o Insert(e, Tail(s))

RECURSIVE Sort(_)
Sort(s) == IF s = <<>> THEN <<>> ELSE Insert(Head(s), Sort(Tail(s)))

\* ------------------------------------------------------------------------
\* Canonicalisation of Add, Mul and Pow
\* ------------------------------------------------------------------------
RECURSIVE Flatten(_, _)
Flatten(tag, s) ==
  IF s = <<>> THEN <<>>
  ELSE (IF Tag(Head(s)) = tag THEN Head(s)[2] ELSE <<Head(s)>>)
       \o Flatten(tag, Tail(s))

MkMul(s) == IF Len(s) = 1 THEN s[1] ELSE mul(s)

\* t as <<rest, coefficient>>; a bare number has rest 1
SplitCoef(t) ==
  IF IsNum(t) THEN <<Num(1), t>>
  ELSE IF Tag(t) = "mul" /\ IsNum(t[2][1]) THEN <<MkMul(Tail(t[2])), t[2][1]>>
  ELSE <<t, Num(1)>>

JoinCoef(rest, coef) ==
  IF rest = Num(1) THEN coef
  ELSE IF coef = Num(1) THEN rest
  ELSE IF Tag(rest) = "mul" THEN mul(<<coef>> \o rest[2])
  ELSE mul(<<coef, rest>>)

\* acc is a sequence of <<key, number>>; add n to the entry of key k
RECURSIVE Accum(_, _, _)
Accum(acc, k, n) ==
  IF acc = <<>> THEN << <<k, n>> >>
  ELSE IF Head(acc)[1] = k
       THEN << <<k, NumAdd(Head(acc)[2], n)>> >> \o Tail(acc)
  ELSE <<Head(acc)>> \o Accum(Tail(acc), k, n)

RECURSIVE CollectAdd(_, _)
CollectAdd(s, acc) ==
  IF s = <<>> THEN acc
  ELSE LET sc == SplitCoef(Head(s))
       IN  CollectAdd(Tail(s), Accum(acc, sc[1], sc[2]))

RECURSIVE RebuildAdd(_)
RebuildAdd(acc) ==
  IF acc = <<>> THEN <<>>
  ELSE (IF Head(acc)[2] = Num(0) THEN <<>>
        ELSE <<JoinCoef(Head(acc)[1], Head(acc)[2])>>)
       \o RebuildAdd(Tail(acc))

AddEval(args) ==
  LET terms == Sort(RebuildAdd(CollectAdd(Flatten("add", args), <<>>)))
  IN  IF terms = <<>> THEN Num(0)
      ELSE IF Len(terms) = 1 THEN terms[1]
      ELSE add(terms)

RECURSIVE NumProduct(_)
NumProduct(s) ==
  IF s = <<>> THEN Num(1)
  ELSE IF IsNum(Head(s)) THEN NumMul(Head(s), NumProduct(Tail(s)))
  ELSE NumProduct(Tail(s))

\* t as <<base, exponent>>
SplitPow(t) ==
  IF Tag(t) = "pow" /\ IsNum(t[3]) THEN <<t[2], t[3]>> ELSE <<t, Num(1)>>

RECURSIVE CollectMul(_, _)
CollectMul(s, acc) ==
  IF s = <<>> THEN acc
  ELSE IF IsNum(Head(s)) THEN CollectMul(Tail(s), acc)
  ELSE LET sp == SplitPow(Head(s))
       IN  CollectMul(Tail(s), Accum(acc, sp[1], sp[2]))

RECURSIVE RebuildMul(_)
RebuildMul(acc) ==
  IF acc = <<>> THEN <<>>
  ELSE (IF Head(acc)[2] = Num(0) THEN <<>>
        ELSE IF Head(acc)[2] = Num(1) THEN <<Head(acc)[1]>>
        ELSE <<pow(Head(acc)[1], Head(acc)[2])>>)
       \o RebuildMul(Tail(acc))

MulEval(args) ==
  LET flat == Flatten("mul", args)
      coef == NumProduct(flat)
      factors == Sort(RebuildMul(CollectMul(flat, <<>>)))
  IN  IF coef = Num(0) THEN Num(0)
      ELSE IF factors = <<>> THEN coef
      ELSE IF coef = Num(1) THEN MkMul(factors)
      ELSE mul(<<coef>> \o factors)

RECURSIVE PowEval(_, _)
PowEval(a, b) ==
  IF b = Num(0) THEN Num(1)
  ELSE IF b = Num(1) THEN a
  ELSE IF IsNum(a) /\ IsInt(b)
       THEN (IF a[2] = 0 /\ b[2] < 0 THEN Raise("ZeroDivisionError")
             ELSE NumPowInt(a, b[2]))
  ELSE IF a = Num(1) THEN Num(1)
  ELSE IF Tag(a) = "pow" /\ IsNum(a[3]) /\ IsInt(b)
       THEN PowEval(a[2], NumMul(a[3], b))
  ELSE IF Tag(a) = "mul" /\ IsInt(b)
       THEN LET ps == list([i \in 1..Len(a[2]) |-> PowEval(a[2][i], b)])
            IN  IF \E i \in 1..Len(ps) : IsErr(ps[i])
                THEN Raise("ZeroDivisionError")
                ELSE MulEval(ps)
  ELSE pow(a, b)

\* ------------------------------------------------------------------------
\* exp.eval and log.eval (one node, argument taken as it is)
\* ------------------------------------------------------------------------
getab(e) ==
  <<e[2][1], IF Len(e[2]) = 2 THEN e[2][2] ELSE <<Tag(e), Tail(e[2])>> >>

\* exp.eval without the rule for exp(0)
exp_eval_nozero(self) ==
  LET arg == self[2]
  IN  IF Tag(arg) = "ln" THEN arg[2] ELSE self

exp_eval(self) ==
  LET arg == self[2]
  IN  IF IsNum(arg) /\ arg[2] = 0 THEN Num(1)
      ELSE IF Tag(arg) = "ln" THEN arg[2]
      ELSE self

log_eval(self) ==
  LET arg == self[2]
  IN  IF IsNum(arg) /\ arg = Num(1) THEN Num(0)
      ELSE IF Tag(arg) = "exp" THEN arg[2]
      ELSE IF Tag(arg) = "mul"
           THEN add(<<ln(getab(arg)[1]), ln(getab(arg)[2])>>)
      ELSE IF Tag(arg) = "pow" THEN mul(<<arg[3], ln(arg[2])>>)
      ELSE self

\* ------------------------------------------------------------------------
\* eval: canonical form of a whole expression
\* ------------------------------------------------------------------------
FirstErr(s) == s[CHOOSE i \in 1..Len(s) : IsErr(s[i]) /\ \A j \in 1..(i-1) : ~IsErr(s[j])]

eval(e) ==
  CASE Tag(e) = "num" -> rational(e[2], e[3])
    [] Tag(e) \in {"add", "mul"} ->
         (LET as == list([i \in 1..Len(e[2]) |-> Call(<<"eval", e[2][i]>>)])
          IN  IF \E i \in 1..Len(as) : IsErr(as[i]) THEN FirstErr(as)
              ELSE IF Tag(e) = "add" THEN AddEval(as) ELSE MulEval(as))
    [] Tag(e) = "pow" ->
         (LET a == Call(<<"eval", e[2]>>)
              b == Call(<<"eval", e[3]>>)
          IN  IF IsErr(a) THEN a ELSE IF IsErr(b) THEN b ELSE PowEval(a, b))
    [] Tag(e) = "exp" ->
         (LET a == Call(<<"eval", e[2]>>)
          IN  IF IsErr(a) THEN a ELSE exp_eval(exp(a)))
    [] Tag(e) = "ln" ->
         (LET a == Call(<<"eval", e[2]>>)
              r == log_eval(ln(a))
          IN  IF IsErr(a) THEN a ELSE IF r = ln(a) THEN r ELSE Call(<<"eval", r>>))
    [] OTHER -> e

\* a == b of the kernel: the canonical forms coincide
Eq(a, b) == a = b \/ Call(<<"eval", a>>) = Call(<<"eval", b>>)

\* ------------------------------------------------------------------------
\* Differentiation and substitution
\* ------------------------------------------------------------------------
diff(e, x) ==
  CASE Tag(e) = "sym" -> (IF e = x THEN Num(1) ELSE Num(0))
    [] Tag(e) = "add" -> add(list([i \in 1..Len(e[2]) |-> Call(<<"diff", e[2][i], x>>)]))
    [] Tag(e) = "mul" ->
         add(list([i \in 1..Len(e[2]) |->
               mul(list([j \in 1..Len(e[2]) |->
                     IF j = i THEN Call(<<"diff", e[2][j], x>>) ELSE e[2][j]]))]))
    [] Tag(e) = "pow" ->
         (IF IsNum(e[3])
          THEN mul(<<e[3], pow(e[2], NumAdd(e[3], Num(-1))), Call(<<"diff", e[2], x>>)>>)
          ELSE mul(<<e, add(<<mul(<<Call(<<"diff", e[3], x>>), ln(e[2])>>),
                              mul(<<e[3], Call(<<"diff", e[2], x>>), pow(e[2], Num(-1))>>)>>)>>))
    [] Tag(e) = "exp" -> mul(<<exp(e[2]), Call(<<"diff", e[2], x>>)>>)
    [] Tag(e) = "ln" -> mul(<<pow(e[2], Num(-1)), Call(<<"diff", e[2], x>>)>>)
    [] OTHER -> Num(0)

Basic_subs(self, old, new) == IF Call(<<"Eq", self, old>>) THEN new ELSE self

\* Function.subs that returns Basic.subs' result without descending into arg
Function_subs_shallow(self, old, new) == Basic_subs(self, old, new)

Function_subs(self, old, new) ==
  LET e == Basic_subs(self, old, new)
  IN  IF Call(<<"Eq", e, self>>) THEN <<Tag(self), Call(<<"subs", self[2], old, new>>)>> ELSE e

subs(e, old, new) ==
  CASE Tag(e) \in {"exp", "ln"} -> Function_subs(e, old, new)
    [] Tag(e) \in {"add", "mul"} ->
         (IF Call(<<"Eq", e, old>>) THEN new
          ELSE <<Tag(e), list([i \in 1..Len(e[2]) |-> Call(<<"subs", e[2][i], old, new>>)])>>)
    [] Tag(e) = "pow" ->
         (IF Call(<<"Eq", e, old>>) THEN new
          ELSE pow(Call(<<"subs", e[2], old, new>>), Call(<<"subs", e[3], old, new>>)))
    [] OTHER -> Basic_subs(e, old, new)

\* ------------------------------------------------------------------------
\* Series: the expansion of f in powers of w, as a sequence of
\* <<coefficient, exponent>>; a coefficient is free of w except for ln(w),
\* which log.series leaves in it
\* ------------------------------------------------------------------------
RECURSIVE Occurs(_, _)
Occurs(x, e) ==
  CASE Tag(e) \in {"add", "mul"} -> \E i \in 1..Len(e[2]) : Occurs(x, e[2][i])
    [] Tag(e) = "pow" -> Occurs(x, e[2]) \/ Occurs(x, e[3])
    [] Tag(e) \in {"exp", "ln"} -> Occurs(x, e[2])
    [] OTHER -> e = x

RECURSIVE MergeTerm(_, _, _)
MergeTerm(acc, c, k) ==
  IF acc = <<>> THEN << <<c, k>> >>
  ELSE IF Head(acc)[2] = k
       THEN << <<Call(<<"eval", add(<<Head(acc)[1], c>>)>>), k>> >> \o Tail(acc)
  ELSE <<Head(acc)>> \o MergeTerm(Tail(acc), c, k)

RECURSIVE MergeAll(_, _)
MergeAll(acc, ts) ==
  IF ts = <<>> THEN acc
  ELSE MergeAll(MergeTerm(acc, Head(ts)[1], Head(ts)[2]), Tail(ts))

DropZero(ts) == SelectSeq(ts, LAMBDA t : t[1] # Num(0))

RECURSIVE SumTerms(_)
SumTerms(tss) ==
  IF tss = <<>> THEN <<>> ELSE MergeAll(SumTerms(Tail(tss)), Head(tss))

ScaleTerms(ts, c, k) ==
  list([i \in 1..Len(ts) |-> <<Call(<<"eval", mul(<<c, ts[i][1]>>)>>), NumAdd(ts[i][2], k)>>])

RECURSIVE MulTerms(_, _)
MulTerms(s, t) ==
  IF s = <<>> THEN <<>>
  ELSE MergeAll(MulTerms(Tail(s), t), ScaleTerms(t, Head(s)[1], Head(s)[2]))

RECURSIVE ProdTerms(_)
ProdTerms(tss) ==
  IF tss = <<>> THEN << <<Num(1), Num(0)>> >>
  ELSE MulTerms(Head(tss), ProdTerms(Tail(tss)))

MinIdx(ts) ==
  CHOOSE i \in 1..Len(ts) : \A j \in 1..Len(ts) : ~NumLess(ts[j][2], ts[i][2])

AnyErrTerm(ts) == \E i \in 1..Len(ts) : IsErr(ts[i][1])

PowTerms(ta, n) ==
  IF ta = <<>> THEN (IF NumSign(n) > 0 THEN Ok(<<>>) ELSE Raise("pole_error"))
  ELSE LET m == MinIdx(ta)
           c0 == ta[m][1]
           k0 == ta[m][2]
           lc == Call(<<"eval", pow(c0, n)>>)
           lk == NumMul(k0, n)
           rest == list([i \in 1..Len(ta) |->
                     IF i = m THEN <<lc, lk>>
                     ELSE <<Call(<<"eval", mul(<<n, lc, ta[i][1], pow(c0, Num(-1))>>)>>),
                            NumAdd(lk, NumAdd(ta[i][2], NumMul(Num(-1), k0)))>>])
       IN  IF AnyErrTerm(rest) THEN Raise("pole_error") ELSE Ok(rest)

ExpTerms(tu) ==
  IF \E i \in 1..Len(tu) : NumSign(tu[i][2]) < 0 THEN Raise("pole_error")
  ELSE LET z == SelectSeq(tu, LAMBDA t : t[2] = Num(0))
           z0 == IF z = <<>> THEN Num(0) ELSE z[1][1]
           E0 == Call(<<"eval", exp(z0)>>)
       IN  Ok(list([i \in 1..Len(tu) + 1 |->
                IF i = 1 THEN <<E0, Num(0)>>
                ELSE IF tu[i-1][2] = Num(0) THEN <<Num(0), Num(0)>>
                ELSE <<Call(<<"eval", mul(<<E0, tu[i-1][1]>>)>>), tu[i-1][2]>>]))

\* log.series with n = 1: ln(c0) + e0*ln(w) + Phi, Phi = arg/(c0*w^e0) - 1
LnTerms(tu, w) ==
  IF tu = <<>> THEN Raise("pole_error")
  ELSE LET m == MinIdx(tu)
           c0 == tu[m][1]
           e0 == tu[m][2]
       IN  IF IsNum(c0) /\ NumSign(c0) <= 0 THEN Raise("AssertionError")
           ELSE Ok(list([i \in 1..Len(tu) |->
                     IF i = m
                     THEN <<Call(<<"eval", add(<<ln(c0), mul(<<e0, ln(w)>>)>>)>>), Num(0)>>
                     ELSE <<Call(<<"eval", mul(<<tu[i][1], pow(c0, Num(-1))>>)>>),
                            NumAdd(tu[i][2], NumMul(Num(-1), e0))>>]))

Terms(f, w) ==
  IF ~Occurs(w, f)
  THEN (LET c == Call(<<"eval", f>>) IN IF IsErr(c) THEN c ELSE Ok(<< <<c, Num(0)>> >>))
  ELSE CASE Tag(f) = "sym" -> Ok(<< <<Num(1), Num(1)>> >>)
         [] Tag(f) \in {"add", "mul"} ->
              (LET ts == list([i \in 1..Len(f[2]) |-> Call(<<"Terms", f[2][i], w>>)])
                   vs == list([i \in 1..Len(ts) |-> Val(ts[i])])
               IN  IF \E i \in 1..Len(ts) : IsErr(ts[i]) THEN FirstErr(ts)
                   ELSE IF Tag(f) = "add" THEN Ok(DropZero(SumTerms(vs)))
                   ELSE Ok(DropZero(ProdTerms(vs))))
         [] Tag(f) = "pow" ->
              (IF ~IsNum(f[3]) THEN Raise("NotImplementedError")
               ELSE LET ta == Call(<<"Terms", f[2], w>>)
                    IN  IF IsErr(ta) THEN ta
                        ELSE LET r == PowTerms(Val(ta), f[3])
                             IN  IF IsErr(r) THEN r ELSE Ok(DropZero(Val(r))))
         [] Tag(f) = "exp" ->
              (LET tu == Call(<<"Terms", f[2], w>>)
               IN  IF IsErr(tu) THEN tu
                   ELSE LET r == ExpTerms(Val(tu))
                        IN  IF IsErr(r) THEN r ELSE Ok(DropZero(Val(r))))
         [] Tag(f) = "ln" ->
              (LET tu == Call(<<"Terms", f[2], w>>)
               IN  IF IsErr(tu) THEN tu
                   ELSE LET r == LnTerms(Val(tu), w)
                        IN  IF IsErr(r) THEN r ELSE Ok(DropZero(Val(r))))
         [] OTHER -> Raise("NotImplementedError")

\* f.series(w, 1)
series(f, w) ==
  LET t == Call(<<"Terms", f, w>>)
  IN  IF IsErr(t) THEN t
      ELSE Ok(Call(<<"eval", add(list([i \in 1..Len(Val(t)) |->
                         mul(<<Val(t)[i][1], pow(w, Val(t)[i][2])>>)]))>>))

\* ------------------------------------------------------------------------
\* src/limits.py
\* ------------------------------------------------------------------------
has(e, x) == Call(<<"eval", Call(<<"diff", e, x>>)>>) # Num(0)

member(x, a) == \E i \in 1..Len(a) : Call(<<"Eq", x, a[i]>>)

intersect(a, b) == \E i \in 1..Len(a) : Call(<<"member", a[i], b>>)

\* union that appends b without looking for its elements in a
union_all(a, b) == a \o b

union(a, b) == a \o SelectSeq(b, LAMBDA y : ~Call(<<"member", y, a>>))

\* sign taking only the second part of a product
sign_second(e, x) ==
  IF IsNum(e) THEN Ok(NumSign(e))
  ELSE IF Call(<<"Eq", e, x>>) THEN Ok(1)
  ELSE IF Tag(e) = "mul" THEN Call(<<"sign", getab(e)[2], x>>)
  ELSE IF Tag(e) = "exp" THEN Ok(1)
  ELSE IF Tag(e) = "pow"
       THEN LET sa == Call(<<"sign", e[2], x>>)
            IN  IF IsErr(sa) THEN sa
                ELSE IF Val(sa) = 1 THEN Ok(1)
                ELSE Raise("cannot determine the sign")
  ELSE Raise("cannot determine the sign")

sign(e, x) ==
  IF IsNum(e) THEN Ok(NumSign(e))
  ELSE IF Call(<<"Eq", e, x>>) THEN Ok(1)
  ELSE IF Tag(e) = "mul"
       THEN LET sa == Call(<<"sign", getab(e)[1], x>>)
                sb == Call(<<"sign", getab(e)[2], x>>)
            IN  IF IsErr(sa) THEN sa
                ELSE IF IsErr(sb) THEN sb
                ELSE Ok(Val(sa) * Val(sb))
  ELSE IF Tag(e) = "exp" THEN Ok(1)
  ELSE IF Tag(e) = "pow"
       THEN LET sa == Call(<<"sign", e[2], x>>)
            IN  IF IsErr(sa) THEN sa
                ELSE IF Val(sa) = 1 THEN Ok(1)
                ELSE Raise("cannot determine the sign")
  ELSE Raise("cannot determine the sign")

\* the sentinel exponent (s.rational(10)**10).eval() of leadterm
LowestInit == 1000000000

domul(x) == IF Len(x) > 1 THEN mul(x) ELSE x[1]

Without(s, i) == SubSeq(s, 1, i - 1) \o SubSeq(s, i + 1, Len(s))

extract(t, x) ==
  IF ~Call(<<"has", t, x>>) THEN Ok(<<t, Num(0)>>)
  ELSE IF Tag(t) = "pow" THEN Ok(<<Num(1), t[3]>>)
  ELSE IF Tag(t) = "sym" THEN Ok(<<Num(1), Num(1)>>)
  ELSE IF Tag(t) # "mul" THEN Raise("AssertionError")
  ELSE IF \E i \in 1..Len(t[2]) : Call(<<"has", t[2][i], x>>)
       THEN LET i == CHOOSE i \in 1..Len(t[2]) :
                       Call(<<"has", t[2][i], x>>) /\ \A j \in 1..(i-1) : ~Call(<<"has", t[2][j], x>>)
                a == t[2][i]
            IN  IF Tag(a) = "pow" THEN Ok(<<domul(Without(t[2], i)), a[3]>>)
                ELSE IF Tag(a) = "sym" THEN Ok(<<domul(Without(t[2], i)), Num(1)>>)
                ELSE Raise("AssertionError")
  ELSE Ok(<<t, Num(0)>>)

RECURSIVE lowestOf(_, _, _)
lowestOf(args, x, lowest) ==
  IF args = <<>> THEN Ok(lowest)
  ELSE LET t2 == Call(<<"extract", Head(args), x>>)
       IN  IF IsErr(t2) THEN t2
           ELSE IF ~IsNum(Val(t2)[2]) THEN Raise("TypeError")
           ELSE IF NumLess(Val(t2)[2], lowest[2])
                THEN lowestOf(Tail(args), x, Val(t2))
           ELSE lowestOf(Tail(args), x, lowest)

\* leadterm after the series has been taken
leadtermOf(ser, x) ==
  IF ser = Num(0) THEN Raise("AssertionError")
  ELSE IF Tag(ser) # "add" THEN Call(<<"extract", ser, x>>)
  ELSE lowestOf(ser[2], x, <<Num(0), Num(LowestInit)>>)

leadterm(f, x) ==
  LET ser == Call(<<"series", f, x>>)
  IN  IF IsErr(ser) THEN ser
      ELSE IF IsErr(Val(ser)) THEN Val(ser)
      ELSE Call(<<"leadtermOf", Call(<<"eval", Val(ser)>>), x>>)

\* moveup that leaves the list as it is
moveup_same(l, x) == l

moveup(l, x) == list([i \in 1..Len(l) |-> Call(<<"eval", Call(<<"subs", l[i], x, exp(x)>>)>>)])

movedown(l, x) == list([i \in 1..Len(l) |-> Call(<<"eval", Call(<<"subs", l[i], x, ln(x)>>)>>)])

None == <<"None">>
List(l) == <<"list", l>>

\* stable sort of Omega by decreasing value of key
RECURSIVE InsertBy(_, _, _, _)
InsertBy(e, k, s, ks) ==
  IF s = <<>> THEN << <<e>>, <<k>> >>
  ELSE IF k > Head(ks) THEN << <<e>> \o s, <<k>> \o ks >>
  ELSE LET r == InsertBy(e, k, Tail(s), Tail(ks))
       IN  << <<Head(s)>> \o r[1], <<Head(ks)>> \o r[2] >>

RECURSIVE SortBy(_, _)
SortBy(s, ks) ==
  IF s = <<>> THEN << <<>>, <<>> >>
  ELSE LET r == SortBy(SubSeq(s, 1, Len(s) - 1), SubSeq(ks, 1, Len(ks) - 1))
       IN  InsertBy(s[Len(s)], ks[Len(ks)], r[1], r[2])

\* only the first element of Omega is substituted
subsAll_first(f, Omega, O2) ==
  IF Omega = <<>> THEN f ELSE Call(<<"subs", f, Head(Omega), Head(O2)>>)

\* for a, b in zip(Omega, O2): f = f.subs(a, b)
RECURSIVE subsAll(_, _, _)
subsAll(f, Omega, O2) ==
  IF Omega = <<>> THEN f
  ELSE subsAll(Call(<<"subs", f, Head(Omega), Head(O2)>>), Tail(Omega), Tail(O2))

\* d is the number of frames left before the interpreter's recursion limit.

\* limitinf without the test for a constant
limitinf_noconst(e, x, d) ==
  IF d = 0 THEN Raise("RuntimeError: maximum recursion depth exceeded")
  ELSE LET lt == Call(<<"mrvleadterm", e, x, None, d - 1>>)
       IN  IF IsErr(lt) THEN lt
           ELSE LET c0 == Val(lt)[1]
                    e0 == Val(lt)[2]
                    sig == Call(<<"sign", e0, x>>)
                IN  IF IsErr(sig) THEN sig
                    ELSE IF Val(sig) = 1 THEN Ok(Num(0))
                    ELSE IF Val(sig) = -1 THEN Ok(infty)
                    ELSE Call(<<"limitinf", c0, x, d - 1>>)

limitinf(e, x, d) ==
  IF d = 0 THEN Raise("RuntimeError: maximum recursion depth exceeded")
  ELSE IF ~Call(<<"has", e, x>>) THEN Ok(e)
  ELSE LET lt == Call(<<"mrvleadterm", e, x, None, d - 1>>)
       IN  IF IsErr(lt) THEN lt
           ELSE LET c0 == Val(lt)[1]
                    e0 == Val(lt)[2]
                    sig == Call(<<"sign", e0, x>>)
                IN  IF IsErr(sig) THEN sig
                    ELSE IF Val(sig) = 1 THEN Ok(Num(0))
                    ELSE IF Val(sig) = -1 THEN Ok(infty)
                    ELSE Call(<<"limitinf", c0, x, d - 1>>)

\* x = s.symbol("x") of limit
limit_x == symbol("x")

\* e0 = e.subs(z, z0 + 1/x) of limit
limit_e0(e, z, z0) == Call(<<"subs", e, z, add(<<z0, pow(limit_x, Num(-1))>>)>>)

limit(e, z, z0, d) == Call(<<"limitinf", limit_e0(e, z, z0), limit_x, d>>)

rewrite(e, Omega, x, wsym, d) ==
  IF \E i \in 1..Len(Omega) : Tag(Omega[i]) # "exp" THEN Raise("AssertionError")
  ELSE IF Len(Omega) = 0 THEN Raise("AssertionError")
  ELSE LET ms == list([i \in 1..Len(Omega) |->
                   IF Len(Omega) = 1 THEN Ok(<<>>) ELSE Call(<<"mrv", Omega[i], x, d>>)])
       IN  IF \E i \in 1..Len(ms) : IsErr(ms[i]) THEN FirstErr(ms)
           ELSE LET Om == SortBy(Omega, list([i \in 1..Len(ms) |-> Len(Val(ms[i]))]))[1]
                    g == Om[Len(Om)]
                    sg == Call(<<"sign", g[2], x>>)
                IN  IF IsErr(sg) THEN sg
                    ELSE LET ws == IF Val(sg) = 1 THEN pow(wsym, Num(-1)) ELSE wsym
                             cs == list([i \in 1..Len(Om) |->
                                     Call(<<"mrvleadterm", mul(<<Om[i][2], pow(g[2], Num(-1))>>),
                                                 x, None, d>>)])
                         IN  IF \E i \in 1..Len(cs) :
                                   IsErr(cs[i]) \/ Val(cs[i])[2] # Num(0)
                             THEN (LET i == CHOOSE i \in 1..Len(cs) :
                                              (IsErr(cs[i]) \/ Val(cs[i])[2] # Num(0))
                                              /\ \A j \in 1..(i-1) :
                                                   ~IsErr(cs[j]) /\ Val(cs[j])[2] = Num(0)
                                   IN  IF IsErr(cs[i]) THEN cs[i]
                                       ELSE Raise("AssertionError"))
                             ELSE LET O2 == list([i \in 1..Len(Om) |->
                                       Call(<<"eval", mul(<<exp(add(<<Om[i][2],
                                                    mul(<<Num(-1), Val(cs[i])[1], g[2]>>)>>)),
                                                  pow(ws, Val(cs[i])[1])>>)>>)])
                                  IN  Ok(subsAll(e, Om, O2))

\* wsym = s.symbol("w") of mrvleadterm
mrvleadterm_wsym == symbol("w")

mrvleadterm(e0, x, Omega0, d) ==
  IF d = 0 THEN Raise("RuntimeError: maximum recursion depth exceeded")
  ELSE LET e == Call(<<"eval", e0>>)
       IN  IF IsErr(e) THEN e
           ELSE IF ~Call(<<"has", e, x>>) THEN Ok(<<e, Num(0)>>)
           ELSE LET Om == IF Omega0 = None THEN Call(<<"mrv", e, x, d>>) ELSE Ok(Omega0[2])
                IN  IF IsErr(Om) THEN Om
                    ELSE IF Call(<<"member", x, Val(Om)>>)
                         THEN LET r == Call(<<"mrvleadterm", Call(<<"moveup", <<e>>, x>>)[1], x,
                                                   List(Call(<<"moveup", Val(Om), x>>)), d - 1>>)
                              IN  IF IsErr(r) THEN r
                                  ELSE Ok(Call(<<"movedown", Val(r), x>>))
                    ELSE LET wsym == mrvleadterm_wsym
                             f == Call(<<"rewrite", e, Val(Om), x, wsym, d>>)
                         IN  IF IsErr(f) THEN f ELSE Call(<<"leadterm", Val(f), wsym>>)

mrv(e, x, d) ==
  IF ~Call(<<"has", e, x>>) THEN Ok(<<>>)
  ELSE IF Call(<<"Eq", e, x>>) THEN Ok(<<x>>)
  ELSE IF Tag(e) \in {"mul", "add"}
       THEN LET ma == Call(<<"mrv", getab(e)[1], x, d>>)
                mb == Call(<<"mrv", getab(e)[2], x, d>>)
            IN  IF IsErr(ma) THEN ma
                ELSE IF IsErr(mb) THEN mb
                ELSE Call(<<"max", Val(ma), Val(mb), x, d>>)
  ELSE IF Tag(e) = "pow" /\ IsNum(e[3]) THEN Call(<<"mrv", e[2], x, d>>)
  ELSE IF Tag(e) = "ln" THEN Call(<<"mrv", e[2], x, d>>)
  ELSE IF Tag(e) = "exp"
       THEN LET l == Call(<<"limitinf", e[2], x, d>>)
            IN  IF IsErr(l) THEN l
                ELSE LET m == Call(<<"mrv", e[2], x, d>>)
                     IN  IF IsErr(m) THEN m
                         ELSE IF Call(<<"Eq", Val(l), infty>>) THEN Call(<<"max", <<e>>, Val(m), x, d>>)
                         ELSE m
  ELSE Raise("unimplemented in mrv")

\* max returning the empty f instead of g
max_emptyf(f, g, x, d) ==
  IF f = <<>> THEN Ok(f)
  ELSE IF g = <<>> THEN Ok(f)
  ELSE IF Call(<<"intersect", f, g>>) THEN Ok(Call(<<"union", f, g>>))
  ELSE IF Call(<<"member", x, f>>) THEN Ok(g)
  ELSE IF Call(<<"member", x, g>>) THEN Ok(f)
  ELSE LET c == Call(<<"compare", f[1], g[1], x, d>>)
       IN  IF IsErr(c) THEN c
           ELSE IF Val(c) = ">" THEN Ok(f)
           ELSE IF Val(c) = "<" THEN Ok(g)
           ELSE Ok(Call(<<"union", f, g>>))

max(f, g, x, d) ==
  IF f = <<>> THEN Ok(g)
  ELSE IF g = <<>> THEN Ok(f)
  ELSE IF Call(<<"intersect", f, g>>) THEN Ok(Call(<<"union", f, g>>))
  ELSE IF Call(<<"member", x, f>>) THEN Ok(g)
  ELSE IF Call(<<"member", x, g>>) THEN Ok(f)
  ELSE LET c == Call(<<"compare", f[1], g[1], x, d>>)
       IN  IF IsErr(c) THEN c
           ELSE IF Val(c) = ">" THEN Ok(f)
           ELSE IF Val(c) = "<" THEN Ok(g)
           ELSE Ok(Call(<<"union", f, g>>))

\* compare with "<" and ">" exchanged
compare_swapped(a, b, x, d) ==
  LET c == Call(<<"limitinf", mul(<<ln(a), pow(ln(b), Num(-1))>>), x, d>>)
  IN  IF IsErr(c) THEN c
      ELSE IF Call(<<"Eq", Val(c), Num(0)>>) THEN Ok(">")
      ELSE IF Call(<<"Eq", Val(c), infty>>) THEN Ok("<")
      ELSE Ok("=")

compare(a, b, x, d) ==
  LET c == Call(<<"limitinf", mul(<<ln(a), pow(ln(b), Num(-1))>>), x, d>>)
  IN  IF IsErr(c) THEN c
      ELSE IF Call(<<"Eq", Val(c), Num(0)>>) THEN Ok("<")
      ELSE IF Call(<<"Eq", Val(c), infty>>) THEN Ok(">")
      ELSE Ok("=")

Call(c) ==
  CASE c[1] = "eval" -> eval(c[2])
    [] c[1] = "diff" -> diff(c[2], c[3])
    [] c[1] = "subs" -> subs(c[2], c[3], c[4])
    [] c[1] = "Terms" -> Terms(c[2], c[3])
    [] c[1] = "has" -> has(c[2], c[3])
    [] c[1] = "Eq" -> Eq(c[2], c[3])
    [] c[1] = "sign" -> sign(c[2], c[3])
    [] c[1] = "extract" -> extract(c[2], c[3])
    [] c[1] = "leadtermOf" -> leadtermOf(c[2], c[3])
    [] c[1] = "leadterm" -> leadterm(c[2], c[3])
    [] c[1] = "series" -> series(c[2], c[3])
    [] c[1] = "moveup" -> moveup(c[2], c[3])
    [] c[1] = "movedown" -> movedown(c[2], c[3])
    [] c[1] = "member" -> member(c[2], c[3])
    [] c[1] = "intersect" -> intersect(c[2], c[3])
    [] c[1] = "union" -> union(c[2], c[3])
    [] c[1] = "limitinf" -> limitinf(c[2], c[3], c[4])
    [] c[1] = "mrvleadterm" -> mrvleadterm(c[2], c[3], c[4], c[5])
    [] c[1] = "rewrite" -> rewrite(c[2], c[3], c[4], c[5], c[6])
    [] c[1] = "mrv" -> mrv(c[2], c[3], c[4])
    [] c[1] = "max" -> max(c[2], c[3], c[4], c[5])
    [] c[1] = "compare" -> compare(c[2], c[3], c[4], c[5])
    [] c[1] = "limit" -> limit(c[2], c[3], c[4], c[5])

\* ------------------------------------------------------------------------
\* Bounds and input sets
\* ------------------------------------------------------------------------
MaxCoef == 2
MaxDepth == 8

X == symbol("x")
Y == symbol("y")
W == symbol("w")

Coefs == (-MaxCoef..MaxCoef) \ {0}

Atoms == {X, Y, infty} \cup {Num(c) : c \in -1..1}

Simple ==
  {mul(<<Num(c), X>>) : c \in Coefs}
  \cup {pow(X, Num(c)) : c \in Coefs}
  \cup {exp(mul(<<Num(c), X>>)) : c \in Coefs}
  \cup {exp(X), ln(X), exp(pow(X, Num(2))), exp(Y), mul(<<X, Y>>)}

\* ln(0) and 1/0 are not expressions
Unary(S) ==
  {exp(a) : a \in S}
  \cup {ln(a) : a \in S \ {Num(0)}}
  \cup {pow(a, Num(-1)) : a \in S \ {Num(0)}}

Partners == {X, Y, Num(-1), Num(1), exp(X), ln(X), W}

Binary(S) ==
  {add(<<a, b>>) : a \in S, b \in Partners} \cup {mul(<<a, b>>) : a \in S, b \in Partners}

Exprs == Atoms \cup Simple \cup Unary(Atoms \cup Simple) \cup Binary(Atoms \cup Simple)

Points == {Num(0), Num(1), infty}

ExpNodes ==
  {exp(mul(<<Num(c), X>>)) : c \in Coefs}
  \cup {exp(X), exp(pow(X, Num(2))), exp(add(<<X, Num(1)>>)),
        exp(add(<<X, exp(mul(<<Num(-1), X>>))>>))}

Lists ==
  {<<>>, <<X>>} \cup {<<a>> : a \in ExpNodes}
  \cup {<<exp(X), exp(mul(<<Num(c), X>>))>> : c \in Coefs}
  \cup {<<X, exp(X)>>, <<Y>>}

\* sign is applied to canonical expressions (exponents returned by leadterm)
SignInputs ==
  {t \in {Call(<<"eval", a>>) : a \in Exprs} : ~IsErr(t)}
  \cup {pow(Num(c), X) : c \in -1..MaxCoef}
  \cup {mul(<<X, Y>>), mul(<<X, exp(X)>>), mul(<<Num(-1), X, exp(X)>>)}

\* rewrite is applied as mrvleadterm applies it: to a canonical e with its
\* mrv set, moved up once when the set contains x
RewriteOf(a) ==
  LET ev == Call(<<"eval", a>>)
  IN  IF IsErr(ev) THEN <<>>
      ELSE IF ~Call(<<"has", ev, X>>) THEN <<>>
      ELSE LET m == Call(<<"mrv", ev, X, MaxDepth>>)
           IN  IF IsErr(m) THEN <<>>
               ELSE IF Call(<<"member", X, Val(m)>>)
                    THEN <<Call(<<"moveup", <<ev>>, X>>)[1], Call(<<"moveup", Val(m), X>>)>>
               ELSE <<ev, Val(m)>>

Nested == exp(add(<<X, exp(mul(<<Num(-1), X>>))>>))

RewriteInputs ==
  ({RewriteOf(a) : a \in Exprs} \ {<<>>})
  \cup {<<Call(<<"eval", mul(l)>>), l>> : l \in {l \in Lists : Len(l) = 2 /\ l[1] # X}}
  \cup {<<Call(<<"eval", add(l)>>), l>> : l \in {l \in Lists : Len(l) = 2 /\ l[1] # X}}
  \cup {<<add(<<Nested, exp(mul(<<Num(-1), X>>))>>), <<Nested, exp(mul(<<Num(-1), X>>))>> >>,
        <<add(<<Nested, exp(mul(<<Num(-1), X>>))>>), <<exp(mul(<<Num(-1), X>>)), Nested>> >>,
        <<mul(<<exp(X), exp(add(<<X, Num(1)>>))>>), <<exp(add(<<X, Num(1)>>)), exp(X)>> >>,
        <<X, <<>> >>, <<X, <<X>> >>}

\* subs on function nodes: the node, the expression replaced and its replacement
Z == symbol("z")

SubsArgs ==
  {X, Y, add(<<X, Num(1)>>), mul(<<Num(2), X>>), mul(<<X, Y>>), pow(X, Num(2)),
   exp(X), ln(X), exp(exp(X)), add(<<X, exp(X)>>), ln(add(<<X, Num(1)>>))}

SubsNodes == {exp(a) : a \in SubsArgs} \cup {ln(a) : a \in SubsArgs}

SubsOld == {X, Y, Num(1), exp(X), ln(X), add(<<X, Num(1)>>), exp(exp(X)), mul(<<X, Y>>)}

SubsNew == {X, Y, Z, Num(3), exp(X), exp(Y), ln(X), add(<<X, Num(1)>>)}

\* leadterm is applied to expressions in w: what rewrite returns, and
\* products of a power of w with ln or exp of an expression in w
LeadExps == -2..2

LeadInputs ==
  {add(<<mul(<<Num(c), pow(W, Num(a))>>), mul(<<X, pow(W, Num(b))>>)>>) :
     c \in Coefs, a \in LeadExps, b \in LeadExps}
  \cup {mul(<<pow(W, Num(a)), t>>) :
         a \in LeadExps,
         t \in {X, exp(W), ln(W), ln(add(<<Num(1), W>>)), ln(add(<<W, pow(W, Num(2))>>)),
                pow(add(<<Num(1), W>>), Num(-1))}}
  \cup {W, X, Num(0), Num(2), exp(W), ln(W), ln(add(<<Num(1), W>>))}

\* ------------------------------------------------------------------------
\* State: the operation applied last, its inputs and what it returned
\* ------------------------------------------------------------------------
VARIABLES op, e, e2, F, G, res, res2

vars == <<op, e, e2, F, G, res, res2>>

Init ==
  /\ op = "none"
  /\ e = None
  /\ e2 = None
  /\ F = <<>>
  /\ G = <<>>
  /\ res = None
  /\ res2 = None

CallLimitinf ==
  /\ op = "none"
  /\ \E a \in Exprs :
       /\ e' = a
       /\ res' = Call(<<"limitinf", a, X, MaxDepth>>)
  /\ op' = "limitinf"
  /\ UNCHANGED <<e2, F, G, res2>>

\* limitinf applied to the value limitinf returned
CallLimitinfAgain ==
  /\ op = "limitinf"
  /\ ~IsErr(res)
  /\ res2 = None
  /\ res2' = Call(<<"limitinf", Val(res), X, MaxDepth>>)
  /\ UNCHANGED <<op, e, e2, F, G, res>>

CallLimit ==
  /\ op = "none"
  /\ \E a \in Atoms \cup Simple \cup Binary({X, Y}), z \in {X, Y}, z0 \in Points :
       /\ e' = a
       /\ e2' = z
       /\ F' = <<z0>>
       /\ res' = Call(<<"limit", a, z, z0, MaxDepth>>)
  /\ op' = "limit"
  /\ UNCHANGED <<G, res2>>

CallSign ==
  /\ op = "none"
  /\ \E a \in SignInputs :
       /\ e' = a
       /\ res' = Call(<<"sign", a, X>>)
  /\ op' = "sign"
  /\ UNCHANGED <<e2, F, G, res2>>

CallMrv ==
  /\ op = "none"
  /\ \E a \in Exprs :
       /\ e' = a
       /\ res' = Call(<<"mrv", a, X, MaxDepth>>)
  /\ op' = "mrv"
  /\ UNCHANGED <<e2, F, G, res2>>

CallMax ==
  /\ op = "none"
  /\ \E f \in Lists, g \in Lists :
       /\ F' = f
       /\ G' = g
       /\ res' = Call(<<"max", f, g, X, MaxDepth>>)
  /\ op' = "max"
  /\ UNCHANGED <<e, e2, res2>>

CallCompare ==
  /\ op = "none"
  /\ \E a \in ExpNodes \cup {X}, b \in ExpNodes \cup {X} :
       /\ e' = a
       /\ e2' = b
       /\ res' = Call(<<"compare", a, b, X, MaxDepth>>)
  /\ op' = "compare"
  /\ UNCHANGED <<F, G, res2>>

CallMrvleadterm ==
  /\ op = "none"
  /\ \E a \in Exprs :
       /\ e' = a
       /\ res' = Call(<<"mrvleadterm", a, X, None, MaxDepth>>)
  /\ op' = "mrvleadterm"
  /\ UNCHANGED <<e2, F, G, res2>>

CallRewrite ==
  /\ op = "none"
  /\ \E c \in RewriteInputs :
       /\ e' = c[1]
       /\ F' = c[2]
       /\ res' = Call(<<"rewrite", c[1], c[2], X, W, MaxDepth>>)
  /\ op' = "rewrite"
  /\ UNCHANGED <<e2, G, res2>>

CallExpEval ==
  /\ op = "none"
  /\ \E a \in Exprs :
       /\ e' = a
       /\ res' = exp_eval(exp(a))
  /\ op' = "exp_eval"
  /\ UNCHANGED <<e2, F, G, res2>>

CallLogEval ==
  /\ op = "none"
  /\ \E a \in Exprs :
       /\ e' = a
       /\ res' = log_eval(ln(a))
  /\ op' = "log_eval"
  /\ UNCHANGED <<e2, F, G, res2>>

CallFunctionSubs ==
  /\ op = "none"
  /\ \E node \in SubsNodes, old \in SubsOld, new \in SubsNew :
       /\ e' = node
       /\ e2' = old
       /\ F' = <<new>>
       /\ res' = Function_subs(node, old, new)
  /\ op' = "Function_subs"
  /\ UNCHANGED <<G, res2>>

CallLeadterm ==
  /\ op = "none"
  /\ \E f \in LeadInputs :
       /\ e' = f
       /\ res' = Call(<<"leadterm", f, W>>)
  /\ op' = "leadterm"
  /\ UNCHANGED <<e2, F, G, res2>>

Next ==
  \/ CallLimitinf
  \/ CallLimitinfAgain
  \/ CallLimit
  \/ CallSign
  \/ CallMrv
  \/ CallMax
  \/ CallCompare
  \/ CallMrvleadterm
  \/ CallRewrite
  \/ CallExpEval
  \/ CallLogEval
  \/ CallFunctionSubs
  \/ CallLeadterm

Spec == Init /\ [][Next]_vars

\* ------------------------------------------------------------------------
\* Properties
\* ------------------------------------------------------------------------
IsDepthErr(r) == r = Raise("RuntimeError: maximum recursion depth exceeded")

\* infinity carrying the sign sg
SignedInfty(sg) == IF sg = -1 THEN mul(<<Num(-1), infty>>) ELSE infty

\* C1: for e depending on x, limitinf(e, x) takes (c0, e0) = mrvleadterm(e, x)
\* and dispatches on sign(e0, x): +1 returns 0, -1 returns infinity carrying
\* the sign of c0 (negative infinity for a negative c0), 0 returns
\* limitinf(c0, x).
C1_Dispatch ==
  (op = "limitinf" /\ Call(<<"has", e, X>>)) =>
    LET lt == Call(<<"mrvleadterm", e, X, None, MaxDepth - 1>>)
    IN  ~IsErr(lt) =>
          LET c0 == Val(lt)[1]
              sig == Call(<<"sign", Val(lt)[2], X>>)
              sc == Call(<<"sign", c0, X>>)
          IN  ~IsErr(sig) =>
                /\ (Val(sig) = 1) => (res = Ok(Num(0)))
                /\ (Val(sig) = -1 /\ ~IsErr(sc)) => (res = Ok(SignedInfty(Val(sc))))
                /\ (Val(sig) = 0) => (res = Call(<<"limitinf", c0, X, MaxDepth - 1>>))

\* C2: limit(e, z, Infinity) returns what limitinf(e, z) returns: at the point
\* Infinity the variable is replaced by the limit variable itself and not by
\* point + 1/x.
C2_LimitAtInfinity ==
  (op = "limit" /\ F = <<infty>>) =>
    /\ limit_e0(e, e2, infty) = Call(<<"subs", e, e2, limit_x>>)
    /\ res = Call(<<"limitinf", e, e2, MaxDepth>>)

\* C3: the variable limit substitutes for z differs from every symbol of e and
\* z0 other than z, and the w that mrvleadterm hands to rewrite differs from
\* every symbol of the expression it rewrites.
C3_FreshSymbols ==
  /\ (op = "limit") =>
       \A sy \in {X, Y, W} \ {e2} :
         (Occurs(sy, e) \/ Occurs(sy, F[1])) => sy # limit_x
  /\ (op = "mrvleadterm" /\ Call(<<"has", e, X>>)) => ~Occurs(mrvleadterm_wsym, e)

\* C4: for c not depending on x, limitinf(c, x) returns c itself without
\* entering mrvleadterm (one frame suffices), and limitinf applied to a value
\* limitinf returned gives that value back.
C4_Constant ==
  /\ (op = "limitinf" /\ ~Call(<<"has", e, X>>)) =>
       (res = Ok(e) /\ Call(<<"limitinf", e, X, 1>>) = Ok(e))
  /\ (op = "limitinf" /\ res2 # None) => (res2 = res)

C4_Witness ==
  /\ op = "limitinf"
  /\ ~Call(<<"has", e, X>>)
  /\ Tag(e) = "exp"
  /\ res2 = Ok(e)

\* C5: when mrv(e, x) returns, the returned set is empty exactly when e does
\* not depend on x.
C5_MrvEmptyIff ==
  (op = "mrv" /\ ~IsErr(res)) => ((Val(res) = <<>>) <=> ~Call(<<"has", e, X>>))

C5_Witness ==
  /\ op = "mrv"
  /\ Tag(e) = "add"
  /\ Tag(getab(e)[1]) = "exp"
  /\ Call(<<"has", e, X>>)
  /\ ~IsErr(res)
  /\ Len(Val(res)) = 2

\* t occurs in f as a subterm
RECURSIVE Contains(_, _)
Contains(f, t) ==
  \/ Call(<<"Eq", f, t>>)
  \/ CASE Tag(f) \in {"add", "mul"} -> \E i \in 1..Len(f[2]) : Contains(f[2][i], t)
       [] Tag(f) = "pow" -> Contains(f[2], t) \/ Contains(f[3], t)
       [] Tag(f) \in {"exp", "ln"} -> Contains(f[2], t)
       [] OTHER -> FALSE

\* C6: when rewrite(e, Omega, x, w) returns, the returned expression contains
\* no element of Omega as a subterm.
C6_NoOmegaLeft ==
  (op = "rewrite" /\ ~IsErr(res)) =>
    \A i \in 1..Len(F) : ~Contains(Val(res), F[i])

C6_Witness ==
  /\ op = "rewrite"
  /\ ~IsErr(res)
  /\ Len(F) = 2
  /\ Contains(F[1], F[2])
  /\ Contains(e, F[1])
  /\ Occurs(W, Val(res))

IsSignErr(r) == r = Raise("cannot determine the sign")

\* C7: sign(e, x) returns -1, 0 or +1 by the rules in order: a rational gives
\* its own sign, x gives +1, a product gives the product of the signs of its
\* two parts, exp(u) gives +1, a power whose base has sign +1 gives +1; every
\* other expression fails with the indeterminate-sign error, and a failure on
\* a part of a product or on the base of a power fails the whole call.
C7_SignRules ==
  (op = "sign") =>
    /\ IF IsErr(res) THEN IsSignErr(res) ELSE Val(res) \in {-1, 0, 1}
    /\ IsNum(e) => (res = Ok(NumSign(e)))
    /\ (e = X) => (res = Ok(1))
    /\ (Tag(e) = "mul") =>
         LET sa == Call(<<"sign", getab(e)[1], X>>)
             sb == Call(<<"sign", getab(e)[2], X>>)
         IN  IF IsErr(sa) \/ IsErr(sb) THEN IsSignErr(res)
             ELSE res = Ok(Val(sa) * Val(sb))
    /\ (Tag(e) = "exp") => (res = Ok(1))
    /\ (Tag(e) = "pow") =>
         (IF Call(<<"sign", e[2], X>>) = Ok(1) THEN res = Ok(1) ELSE IsSignErr(res))
    /\ (Tag(e) \in {"add", "ln"} \/ (Tag(e) = "sym" /\ e # X)) => IsSignErr(res)

C7_Witness ==
  /\ op = "sign"
  /\ Tag(e) = "mul"
  /\ Tag(getab(e)[2]) = "pow"
  /\ res = Ok(-1)

\* C8: max(F, G, x) returns F, G or their union by the rules in order: an
\* empty set gives the other one, a shared element gives the union, x in one
\* of them gives the other one, otherwise compare(F[0], G[0], x) decides
\* (">" F, "<" G, "=" union); compare returns "<" exactly when
\* limitinf(ln a / ln b, x) is 0, ">" exactly when it is infinity, "=" otherwise.
C8_MaxCompare ==
  /\ (op = "max") =>
       LET U == Call(<<"union", F, G>>)
       IN  /\ ~IsErr(res) => Val(res) \in {F, G, U}
           /\ IF F = <<>> THEN res = Ok(G)
              ELSE IF G = <<>> THEN res = Ok(F)
              ELSE IF Call(<<"intersect", F, G>>) THEN res = Ok(U)
              ELSE IF Call(<<"member", X, F>>) THEN res = Ok(G)
              ELSE IF Call(<<"member", X, G>>) THEN res = Ok(F)
              ELSE LET c == Call(<<"compare", F[1], G[1], X, MaxDepth>>)
                   IN  /\ (c = Ok(">")) => (res = Ok(F))
                       /\ (c = Ok("<")) => (res = Ok(G))
                       /\ (c = Ok("=")) => (res = Ok(U))
                       /\ IsErr(c) => (res = c)
  /\ (op = "compare") =>
       LET c == Call(<<"limitinf", mul(<<ln(e), pow(ln(e2), Num(-1))>>), X, MaxDepth>>)
       IN  IF IsErr(c) THEN res = c
           ELSE /\ res \in {Ok("<"), Ok(">"), Ok("=")}
                /\ (res = Ok("<")) <=> (Val(c) = Num(0))
                /\ (res = Ok(">")) <=> (Val(c) = infty)

C8_Witness ==
  /\ op = "max"
  /\ F # <<>>
  /\ G # <<>>
  /\ ~Call(<<"intersect", F, G>>)
  /\ ~Call(<<"member", X, F>>)
  /\ ~Call(<<"member", X, G>>)
  /\ Call(<<"compare", F[1], G[1], X, MaxDepth>>) = Ok("<")
  /\ res = Ok(G)

\* number of nodes of an expression tree
RECURSIVE Size(_)
Size(t) ==
  CASE Tag(t) \in {"add", "mul"} -> 1 + Size(t[2][1]) + Size(getab(t)[2])
    [] Tag(t) = "pow" -> 1 + Size(t[2]) + Size(t[3])
    [] Tag(t) \in {"exp", "ln"} -> 1 + Size(t[2])
    [] OTHER -> 1

StrictSubset(a, b) ==
  /\ \A i \in 1..Len(a) : Call(<<"member", a[i], b>>)
  /\ \E j \in 1..Len(b) : ~Call(<<"member", b[j], a>>)

\* C9: every call limitinf(e, x) returns or fails without exhausting the
\* nesting of calls: the recursive call limitinf(c0, x) is on a strictly
\* smaller expression tree or on one whose mrv set is a strict subset of the
\* caller's.
C9_Terminates ==
  (op = "limitinf") =>
    /\ ~IsDepthErr(res)
    /\ Call(<<"has", e, X>>) =>
         LET lt == Call(<<"mrvleadterm", e, X, None, MaxDepth - 1>>)
         IN  (~IsErr(lt) /\ Call(<<"sign", Val(lt)[2], X>>) = Ok(0)) =>
               LET c0 == Val(lt)[1]
                   mc == Call(<<"mrv", c0, X, MaxDepth>>)
                   me == Call(<<"mrv", e, X, MaxDepth>>)
               IN  \/ Size(c0) < Size(e)
                   \/ ~IsErr(mc) /\ ~IsErr(me) /\ StrictSubset(Val(mc), Val(me))

\* C10: exp.eval and log.eval make exp and ln inverses: exp(ln(a)) gives a,
\* ln(exp(a)) gives a, exp(0) gives 1, ln(1) gives 0, ln(a*b) gives
\* ln(a) + ln(b), ln(a^b) gives b*ln(a), and any other node is returned
\* unchanged.
C10_ExpLnEval ==
  /\ (op = "exp_eval") =>
       /\ (Tag(e) = "ln") => (res = e[2])
       /\ (e = Num(0)) => (res = Num(1))
       /\ (Tag(e) # "ln" /\ e # Num(0)) => (res = exp(e))
  /\ (op = "log_eval") =>
       /\ (Tag(e) = "exp") => (res = e[2])
       /\ (e = Num(1)) => (res = Num(0))
       /\ (Tag(e) = "mul") => (res = add(<<ln(getab(e)[1]), ln(getab(e)[2])>>))
       /\ (Tag(e) = "pow") => (res = mul(<<e[3], ln(e[2])>>))
       /\ (Tag(e) \notin {"exp", "mul", "pow"} /\ e # Num(1)) => (res = ln(e))

C10_Witness ==
  /\ op = "log_eval"
  /\ Tag(e) = "exp"
  /\ Tag(e[2]) = "mul"
  /\ res = e[2]

\* C11: f(arg).subs(old, new) is new when the node itself equals old;
\* otherwise it is a node of the same function applied to arg.subs(old, new),
\* in which no occurrence of old that arg had is left.
C11_FunctionSubs ==
  (op = "Function_subs") =>
    LET new == F[1]
    IN  IF Call(<<"Eq", e, e2>>)
        THEN Call(<<"Eq", res, new>>) /\ (~Call(<<"Eq", new, e>>) => res = new)
        ELSE /\ res = <<Tag(e), Call(<<"subs", e[2], e2, new>>)>>
             /\ (new = Z) => ~Contains(res, e2)

C11_Witness ==
  /\ op = "Function_subs"
  /\ ~Call(<<"Eq", e, e2>>)
  /\ Tag(e2) = "exp"
  /\ Tag(e[2]) = "add"
  /\ Contains(e[2], e2)
  /\ F = <<Z>>
  /\ Contains(res, Z)

\* C12: in mrvleadterm, when x is a member of Omega the result is the
\* movedown of both components of mrvleadterm on the moved-up expression and
\* the moved-up Omega; the moved-up Omega does not contain x, so the inner call
\* goes straight to rewrite and leadterm: moveup is applied once.
C12_MoveupOnce ==
  (op = "mrvleadterm") =>
    LET ev == Call(<<"eval", e>>)
    IN  (~IsErr(ev) /\ Call(<<"has", ev, X>>)) =>
          LET Om == Call(<<"mrv", ev, X, MaxDepth>>)
          IN  (~IsErr(Om) /\ Call(<<"member", X, Val(Om)>>)) =>
                LET ue == Call(<<"moveup", <<ev>>, X>>)[1]
                    uO == Call(<<"moveup", Val(Om), X>>)
                    f == Call(<<"rewrite", ue, uO, X, mrvleadterm_wsym, MaxDepth - 1>>)
                    inner == IF IsErr(f) THEN f
                             ELSE Call(<<"leadterm", Val(f), mrvleadterm_wsym>>)
                IN  /\ ~Call(<<"member", X, uO>>)
                    /\ Call(<<"has", ue, X>>)
                    /\ res = IF IsErr(inner) THEN inner
                             ELSE Ok(Call(<<"movedown", Val(inner), X>>))

C12_Witness ==
  /\ op = "mrvleadterm"
  /\ Tag(e) = "mul"
  /\ Call(<<"mrv", e, X, MaxDepth>>) = Ok(<<X>>)
  /\ ~IsErr(res)
  /\ Val(res)[2] # Num(0)

\* the exponent of w in a summand of a canonical series
WExp(t, w) ==
  IF t = w THEN Num(1)
  ELSE IF Tag(t) = "pow" /\ t[2] = w THEN t[3]
  ELSE IF Tag(t) = "mul" /\ \E i \in 1..Len(t[2]) : t[2][i] = w THEN Num(1)
  ELSE IF Tag(t) = "mul" /\ \E i \in 1..Len(t[2]) : Tag(t[2][i]) = "pow" /\ t[2][i][2] = w
       THEN t[2][CHOOSE i \in 1..Len(t[2]) : Tag(t[2][i]) = "pow" /\ t[2][i][2] = w][3]
  ELSE Num(0)

\* C13: leadterm(f, w) returns (c0, e0) where e0 is the smallest exponent of w
\* over the summands of the one-term series of f and c0 does not depend on w,
\* also when a summand is a product with more than one factor containing w.
C13_Leadterm ==
  (op = "leadterm" /\ ~IsErr(res)) =>
    LET ser == Call(<<"eval", Val(Call(<<"series", e, W>>))>>)
        ts == IF Tag(ser) = "add" THEN ser[2] ELSE <<ser>>
        c0 == Val(res)[1]
        e0 == Val(res)[2]
    IN  /\ ~Call(<<"has", c0, W>>)
        /\ \A i \in 1..Len(ts) : ~NumLess(WExp(ts[i], W), e0)
        /\ \E i \in 1..Len(ts) : WExp(ts[i], W) = e0

\* C14: a set returned by mrv is exactly [x] or a list of exp-nodes without
\* duplicates; so the Omega with which mrvleadterm reaches rewrite (after the
\* moveup of [x]) is non-empty and holds exp-nodes only, and rewrite's two
\* entry assertions pass.
C14_MrvShape ==
  /\ (op = "mrv" /\ ~IsErr(res)) =>
       LET m == Val(res)
       IN  \/ m = <<X>>
           \/ /\ \A i \in 1..Len(m) : Tag(m[i]) = "exp"
              /\ \A i \in 1..Len(m) : \A j \in 1..Len(m) :
                   (i # j) => ~Call(<<"Eq", m[i], m[j]>>)
  /\ (op = "mrvleadterm" /\ RewriteOf(e) # <<>>) =>
       LET Om == RewriteOf(e)[2]
       IN  /\ Len(Om) # 0
           /\ \A i \in 1..Len(Om) : Tag(Om[i]) = "exp"
           /\ ~Call(<<"member", X, Om>>)
           /\ res # Raise("AssertionError")

C14_Witness ==
  /\ op = "mrv"
  /\ Tag(e) = "mul"
  /\ ~IsErr(res)
  /\ Len(Val(res)) = 2
  /\ Tag(Val(res)[1]) = "exp"
  /\ Tag(Val(res)[2]) = "exp"

====
